---- MODULE Spec2Model ----
(***************************************************************************)
(* Model of src/src/main.rs: the ValueManager dependency graph (add_value, *)
(* update), the AppLoop / SysLoop worker threads sharing one mutex and one *)
(* run flag, and the event channels drained by handle_event.               *)
(*                                                                         *)
(* Value domain: f16 values are modelled on the integers.  Every integer   *)
(* of magnitude <= 2048 is an f16 value, to_f32 is exact, and the f32 sum, *)
(* difference and product of two such values is exact, so SET, MAX, MIN,   *)
(* ADD, SUBT and MULT are modelled exactly, with f16::from_f32 as the      *)
(* rounding F16.  DIV, POW, ROOT and LOG leave the integers; the operator  *)
(* names drawn as inputs (FuncNames) do not include them.                  *)
(***************************************************************************)
EXTENDS Integers, Sequences, FiniteSets, TLC

----------------------------------------------------------------------------
(* Bounds of the model *)

\* add_value calls made after ValueManager::new()
MaxNodes == 3
\* (operator, parent) pairs declared over all add_value calls
MaxPairs == 2
\* deltas written into value handles
MaxDeltas == 2
\* stores of true into the run flag
MaxRunSets == 2
\* events sent over both channels
MaxEvents == 3

\* the name of the k-th added node; the third repeats "A" (a duplicate name,
\* and a node that can name itself as parent)
NodeNames == <<"A", "B", "A", "C", "D">>
\* parent names an add_value call may declare: added nodes, a constant of
\* ValueManager::new, and "Z", which is never registered
ParentNames == {"A", "B", "2", "Z"}
\* operator names an add_value call may declare; "NOP" is not an operator
FuncNames == {"SET", "ADD", "SUBT", "MULT", "MAX", "MIN", "NOP"}
Bases == {1}
WideBases == {1, 2048}
Deltas == {3}
Loops == {"app", "sys"}
Entities == {"e1"}
Items == {"x", "y"}

----------------------------------------------------------------------------
(* Program constants *)

\* Option::None of Value.paras
None == -1
\* the search of add_value found no node of that name
NotFound == -1
\* FUNCS has 10 entries
NumFuncs == 10
\* the stored indices are u16
U16 == 65536
\* largest magnitude below which every integer is an f16 value
F16Exact == 2048
\* f16::from_f32 rounds magnitudes from 65520 on to infinity
F16Over == 65520
\* stands for f16 infinity (arithmetic on it is not modelled)
F16Inf == 65536

VARIABLES
    values,     \* ValueManager.values: sequence of nodes, ids 0-based
    paras,      \* ValueManager.paras: sequence of (func, parent) lists
    status,     \* "ok", or "panic" once a call panicked, "hang" if update cannot end
    op,         \* the last ValueManager call: "new", "add_value", "push", "update",
                \* or "update_again" for an update() that directly follows an update()
    last_add,   \* arguments of the last add_value call
    npairs,     \* pairs declared so far
    npush,      \* deltas written so far
    update_log, \* what the last call did, if it was update(): the nodes that
                \* held a change, the dirty list after the expansion phase, and
                \* the ids whose value was assigned, in the order of assignment
    commit_st,  \* an update() in progress: the statement of the commit loop it
                \* is at ("idle" outside update()), the node i, the update Vec
    pushed      \* the sum of the deltas written so far

vmvars == <<values, paras, status, op, last_add, npairs, npush, update_log,
            commit_st, pushed>>

VARIABLES
    pc_app,     \* AppLoop::start: the statement the app worker is at
    pc_sys,     \* SysLoop::start: the statement the sys worker is at
    mtx,        \* the shared Mutex: "none", or the worker holding its guard
    run,        \* the shared AtomicBool
    sys_ticks,  \* executions of the sys schedule completed so far
    transfers,  \* invocations of SysLoop.update completed so far
    run_sets,   \* stores of true into run so far
    drained,    \* per loop: handle_event ran since the loop's schedule last executed
    arrived     \* the threads that have called wait() on the Barrier

loopvars == <<pc_app, pc_sys, mtx, run, sys_ticks, transfers, run_sets, drained, arrived>>

VARIABLES
    events,     \* per loop: the content of the channel its Receiver reads
    sent,       \* per loop: every event sent into that channel, in order
    applied,    \* per loop: every event handle_event applied, in order
    store,      \* per loop: its World and Resources
    drain_pc    \* per loop: "idle", or "iter" while handle_event iterates try_iter()

evvars == <<events, sent, applied, store, drain_pc>>

vars == <<vmvars, loopvars, evvars>>

----------------------------------------------------------------------------
(* f16 arithmetic on integers *)

Abs(x) == IF x < 0 THEN -x ELSE x
Sign(x) == IF x < 0 THEN -1 ELSE 1

RECURSIVE Ulp(_)
Ulp(a) == IF a < F16Exact THEN 1 ELSE 2 * Ulp(a \div 2)

\* f16::from_f32 on an integer: round to nearest, ties to even
F16(x) ==
    LET a == Abs(x)
        u == Ulp(a)
        q == a \div u
        r == a % u
        n == IF 2 * r < u THEN q
             ELSE IF 2 * r > u THEN q + 1
             ELSE IF q % 2 = 0 THEN q ELSE q + 1
    IN  IF a >= F16Over THEN Sign(x) * F16Inf ELSE Sign(x) * n * u

SET(x, y) == y
MAX(x, y) == IF x > y THEN x ELSE y
MIN(x, y) == IF x <= y THEN x ELSE y
ADD(x, y) == F16(x + y)
SUBT(x, y) == F16(x - y)
MULT(x, y) == F16(x * y)

\* FUNCS[code](&mut x, &y): the new x
FUNCS(code, x, y) ==
    CASE code = 0 -> SET(x, y)
      [] code = 1 -> MAX(x, y)
      [] code = 2 -> MIN(x, y)
      [] code = 3 -> ADD(x, y)
      [] code = 4 -> SUBT(x, y)
      [] code = 5 -> MULT(x, y)

get_func(name) ==
    CASE name = "SET" -> 0
      [] name = "MAX" -> 1
      [] name = "MIN" -> 2
      [] name = "ADD" -> 3
      [] name = "SUBT" -> 4
      [] name = "MULT" -> 5
      [] name = "DIV" -> 6
      [] name = "POW" -> 7
      [] name = "ROOT" -> 8
      [] name = "LOG" -> 9
      [] OTHER -> 10

----------------------------------------------------------------------------
(* ValueManager::add_value *)

\* the first node named pname, searching from id ii
RECURSIVE find_parent(_, _, _)
find_parent(vals, pname, ii) ==
    IF ii >= Len(vals) THEN NotFound
    ELSE IF vals[ii + 1].name = pname THEN ii
    ELSE find_parent(vals, pname, ii + 1)

\* the loop over 0..funcs.len(): one (func, parent id) per resolved parent,
\* the id stored as u16
RECURSIVE build_paras(_, _, _, _)
build_paras(vals, funcs, parents, i) ==
    IF i > Len(funcs) THEN <<>>
    ELSE LET ii == find_parent(vals, parents[i], 0)
             rest == build_paras(vals, funcs, parents, i + 1)
         IN  IF ii = NotFound THEN rest
             ELSE <<<<get_func(funcs[i]), ii % U16>>>> \o rest

\* the Value pushed by add_value
new_value(name, base, ps) ==
    [name |-> name, base |-> F16(base), value |-> F16(base), change |-> 0, paras |-> ps]

\* add_value that pushes the Value before it looks its parents up
add_value_push_first(vm, name, base, funcs, parents) ==
    IF Len(funcs) = 0
    THEN [values |-> Append(vm.values, new_value(name, base, None)),
          paras  |-> vm.paras]
    ELSE LET vals == Append(vm.values, new_value(name, base, Len(vm.paras) % U16))
         IN  [values |-> vals,
              paras  |-> Append(vm.paras, build_paras(vals, funcs, parents, 1))]

\* add_value on the manager vm = [values, paras]; the index of the new list
\* is self.paras.len() as u16 - 1, taken after the push
add_value(vm, name, base, funcs, parents) ==
    IF Len(funcs) = 0
    THEN [values |-> Append(vm.values, new_value(name, base, None)),
          paras  |-> vm.paras]
    ELSE [values |-> Append(vm.values, new_value(name, base, Len(vm.paras) % U16)),
          paras  |-> Append(vm.paras, build_paras(vm.values, funcs, parents, 1))]

\* ValueManager::new: the five constants
new ==
    LET v0 == [values |-> <<>>, paras |-> <<>>]
        v1 == add_value(v0, "0", 0, <<>>, <<>>)
        v2 == add_value(v1, "1", 1, <<>>, <<>>)
        v3 == add_value(v2, "-1", -1, <<>>, <<>>)
        v4 == add_value(v3, "2", 2, <<>>, <<>>)
    IN  add_value(v4, "-2", -2, <<>>, <<>>)

----------------------------------------------------------------------------
(* ValueManager::update *)

Contains(s, x) == \E k \in 1..Len(s) : s[k] = x

\* the (func, parent) list of node i, empty for Option::None
paras_of(vals, prs, i) ==
    IF vals[i + 1].paras = None THEN <<>> ELSE prs[vals[i + 1].paras + 1]

\* commit phase that leaves the change in place
RECURSIVE commit_keep_change(_, _, _)
commit_keep_change(vals, i, update) ==
    IF i >= Len(vals) THEN [values |-> vals, update |-> update]
    ELSE IF vals[i + 1].change # 0
    THEN commit_keep_change([vals EXCEPT ![i + 1].base = F16(@ + vals[i + 1].change)],
                            i + 1, Append(update, i))
    ELSE commit_keep_change(vals, i + 1, update)

\* commit phase that stores the change as the base
RECURSIVE commit_assign(_, _, _)
commit_assign(vals, i, update) ==
    IF i >= Len(vals) THEN [values |-> vals, update |-> update]
    ELSE IF vals[i + 1].change # 0
    THEN commit_assign([vals EXCEPT ![i + 1].base = F16(vals[i + 1].change),
                                    ![i + 1].change = 0],
                       i + 1, Append(update, i))
    ELSE commit_assign(vals, i + 1, update)

\* commit phase: add each non-zero change into base, zero it, push the id
RECURSIVE commit(_, _, _)
commit(vals, i, update) ==
    IF i >= Len(vals) THEN [values |-> vals, update |-> update]
    ELSE IF vals[i + 1].change # 0
    THEN commit([vals EXCEPT ![i + 1].base = F16(@ + vals[i + 1].change),
                             ![i + 1].change = 0],
                i + 1, Append(update, i))
    ELSE commit(vals, i + 1, update)

\* node ii has parents, whichever they are, and is not yet in update
is_new_child_any_parent(vals, prs, i, ii, update) ==
    /\ Len(paras_of(vals, prs, ii)) > 0
    /\ ~Contains(update, ii)

\* node ii names i as a parent, whether or not update holds it already
is_new_child_no_contains(vals, prs, i, ii, update) ==
    \E k \in 1..Len(paras_of(vals, prs, ii)) : paras_of(vals, prs, ii)[k][2] = i

\* node ii names i as a parent and is not yet in update
is_new_child(vals, prs, i, ii, update) ==
    /\ \E k \in 1..Len(paras_of(vals, prs, ii)) : paras_of(vals, prs, ii)[k][2] = i
    /\ ~Contains(update, ii)

\* one pop of the stack: the scan of all nodes for children of i
RECURSIVE scan_children(_, _, _, _, _, _)
scan_children(vals, prs, i, ii, update, stack) ==
    IF ii >= Len(vals) THEN [update |-> update, stack |-> stack]
    ELSE IF is_new_child(vals, prs, i, ii, update)
    THEN scan_children(vals, prs, i, ii + 1, Append(update, ii), Append(stack, ii))
    ELSE scan_children(vals, prs, i, ii + 1, update, stack)

\* expansion phase: while !stack.is_empty()
RECURSIVE expand(_, _, _, _)
expand(vals, prs, update, stack) ==
    IF stack = <<>> THEN update
    ELSE LET i == stack[Len(stack)]
             r == scan_children(vals, prs, i, 0, update,
                                SubSeq(stack, 1, Len(stack) - 1))
         IN  expand(vals, prs, r.update, r.stack)

Remove(s, k) == SubSeq(s, 1, k - 1) \o SubSeq(s, k + 1, Len(s))

\* a check that looks at the first parent only
has_dirty_parent_first(vals, prs, i, update) ==
    /\ Len(paras_of(vals, prs, i)) > 0
    /\ Contains(update, paras_of(vals, prs, i)[1][2])

\* for (_, para) in paras: if update.contains(para) { continue 'outer }
has_dirty_parent(vals, prs, i, update) ==
    \E k \in 1..Len(paras_of(vals, prs, i)) :
        Contains(update, paras_of(vals, prs, i)[k][2])

\* a pass that also holds a node back while the list holds the node itself
RECURSIVE select_or_self(_, _, _, _, _)
select_or_self(vals, prs, update, ii, is) ==
    IF ii < 1 THEN [update |-> update, is |-> is]
    ELSE IF \/ has_dirty_parent(vals, prs, update[ii], update)
            \/ Contains(update, update[ii])
    THEN select_or_self(vals, prs, update, ii - 1, is)
    ELSE select_or_self(vals, prs, Remove(update, ii), ii - 1, Append(is, update[ii]))

\* one pass of 'outer: ii from update.len()-1 down to 0 (here ii is 1-based)
RECURSIVE select(_, _, _, _, _)
select(vals, prs, update, ii, is) ==
    IF ii < 1 THEN [update |-> update, is |-> is]
    ELSE IF has_dirty_parent(vals, prs, update[ii], update)
    THEN select(vals, prs, update, ii - 1, is)
    ELSE select(vals, prs, Remove(update, ii), ii - 1, Append(is, update[ii]))

\* a fold that applies the pairs from the last to the first
RECURSIVE fold_last_first(_, _, _, _)
fold_last_first(vals, ps, k, value) ==
    IF k > Len(ps) THEN [value |-> value, status |-> "ok"]
    ELSE IF ps[Len(ps) + 1 - k][1] >= NumFuncs THEN [value |-> value, status |-> "panic"]
    ELSE fold_last_first(vals, ps, k + 1,
                         FUNCS(ps[Len(ps) + 1 - k][1], value,
                               vals[ps[Len(ps) + 1 - k][2] + 1].value))

\* the fold of one node: value starts at base, each FUNCS[func] applied in order;
\* a func outside FUNCS panics
RECURSIVE fold(_, _, _, _)
fold(vals, ps, k, value) ==
    IF k > Len(ps) THEN [value |-> value, status |-> "ok"]
    ELSE IF ps[k][1] >= NumFuncs THEN [value |-> value, status |-> "panic"]
    ELSE fold(vals, ps, k + 1, FUNCS(ps[k][1], value, vals[ps[k][2] + 1].value))

\* for &i in is.iter(): recompute and publish each value
\* (done: how many values of is were assigned)
RECURSIVE recompute_is(_, _, _, _)
recompute_is(vals, prs, is, k) ==
    IF k > Len(is) THEN [values |-> vals, status |-> "ok", done |-> k - 1]
    ELSE LET i == is[k]
             r == fold(vals, paras_of(vals, prs, i), 1, vals[i + 1].base)
         IN  IF r.status # "ok"
             THEN [values |-> vals, status |-> r.status, done |-> k - 1]
             ELSE recompute_is([vals EXCEPT ![i + 1].value = r.value], prs, is, k + 1)

\* recompute phase: while !update.is_empty(); a pass that selects nothing
\* repeats forever (writes: the ids assigned at self.values[i].value = value,
\* in the order of the assignments)
RECURSIVE recompute(_, _, _)
recompute(vals, prs, update) ==
    IF update = <<>> THEN [values |-> vals, status |-> "ok", writes |-> <<>>]
    ELSE LET s == select(vals, prs, update, Len(update), <<>>)
             r == recompute_is(vals, prs, s.is, 1)
         IN  IF s.is = <<>>
             THEN [values |-> vals, status |-> "hang", writes |-> <<>>]
             ELSE IF r.status # "ok"
             THEN [values |-> r.values, status |-> r.status,
                   writes |-> SubSeq(s.is, 1, r.done)]
             ELSE LET t == recompute(r.values, prs, s.update)
                  IN  [t EXCEPT !.writes = s.is \o @]

\* the dirty set at the end of the expansion phase
dirty(vals, prs) ==
    LET c == commit(vals, 0, <<>>)
    IN  expand(c.values, prs, c.update, c.update)

\* update(): the values and the status it leaves, with the dirty list it
\* built and the assignments it made
update(vals, prs) ==
    LET c == commit(vals, 0, <<>>)
        u == expand(c.values, prs, c.update, c.update)
        r == recompute(c.values, prs, u)
    IN  [values |-> r.values, status |-> r.status, dirty |-> u, writes |-> r.writes]

----------------------------------------------------------------------------
(* Core::new: the two loops, their channels, the mutex and the run flag *)

\* the hook lists of both loops are built empty
on_schedule_start == [l \in Loops |-> <<>>]
on_schedule_end == [l \in Loops |-> <<>>]
on_schedule_wait == <<>>

\* Barrier::new(3)
BarrierParties == 3

\* resources_app holds producer_sys and resources_sys holds producer_app:
\* the loop whose Receiver gets what loop src sends
producer(src) == IF src = "app" THEN "sys" ELSE "app"

LoopEvent ==
    {[kind |-> "RemoveEntity", entity |-> e, item |-> "-"] : e \in Entities}
    \cup {[kind |-> "ChangeComponent", entity |-> e, item |-> i] : e \in Entities, i \in Items}
    \cup {[kind |-> "ChangeResource", entity |-> "-", item |-> i] : i \in Items}

\* no update() is in progress
NoCommit == [pc |-> "idle", i |-> 0, update |-> <<>>]

\* no update() has run since the last other call
NoLog == [pending |-> {}, dirty |-> <<>>, writes |-> <<>>]

\* the state after ValueManager::new()
InitVMVars ==
    /\ values = new.values
    /\ paras = new.paras
    /\ status = "ok"
    /\ op = "new"
    /\ last_add = [funcs |-> <<>>, parents |-> <<>>]
    /\ npairs = 0
    /\ npush = 0
    /\ update_log = NoLog
    /\ commit_st = NoCommit
    /\ pushed = 0

InitLoopVars ==
    /\ pc_app = "lock"
    /\ pc_sys = "load"
    /\ mtx = "none"
    /\ run = FALSE
    /\ sys_ticks = 0
    /\ transfers = 0
    /\ run_sets = 0
    /\ drained = [l \in Loops |-> FALSE]
    /\ arrived = {}

InitEventVars ==
    /\ events = [l \in Loops |-> <<>>]
    /\ sent = [l \in Loops |-> <<>>]
    /\ applied = [l \in Loops |-> <<>>]
    /\ store = [l \in Loops |-> [world |-> [e \in Entities |-> "init"], resources |-> "init"]]
    /\ drain_pc = [l \in Loops |-> "idle"]

NumSent == Len(sent["app"]) + Len(sent["sys"])

\* Sender::send by a system of loop src: the event joins the peer's channel
send(src, ev) ==
    /\ events' = [events EXCEPT ![producer(src)] = Append(@, ev)]
    /\ sent' = [sent EXCEPT ![producer(src)] = Append(@, ev)]

\* what the systems of loop src may do to the channels in one schedule
\* execution: nothing, or send one event
systems_send(src) ==
    \/ UNCHANGED <<events, sent>>
    \/ /\ NumSent < MaxEvents
       /\ \E ev \in LoopEvent : send(src, ev)

----------------------------------------------------------------------------
(* handle_event *)

\* one arm of the match: the store after event ev
apply_event(st, ev) ==
    CASE ev.kind = "RemoveEntity" ->
            [st EXCEPT !.world[ev.entity] = "deleted"]
      [] ev.kind = "ChangeComponent" ->
            IF st.world[ev.entity] = "deleted" THEN st
            ELSE [st EXCEPT !.world[ev.entity] = ev.item]
      [] ev.kind = "ChangeResource" ->
            [st EXCEPT !.resources = ev.item]

\* the newest event in the channel
next_event_newest(q) == q[Len(q)]

\* the event try_iter() yields next: the oldest one in the channel
next_event(q) == Head(q)
rest_events(q) == Tail(q)

\* handle_event is called on loop l's world, resources and receiver
HandleEventBegin(l) ==
    /\ drain_pc[l] = "idle"
    /\ drain_pc' = [drain_pc EXCEPT ![l] = "iter"]
    /\ UNCHANGED <<events, sent, applied, store, vmvars, loopvars>>

\* try_iter() yields an event and the match applies it
HandleEventNext(l) ==
    /\ drain_pc[l] = "iter"
    /\ events[l] # <<>>
    /\ store' = [store EXCEPT ![l] = apply_event(@, next_event(events[l]))]
    /\ applied' = [applied EXCEPT ![l] = Append(@, next_event(events[l]))]
    /\ events' = [events EXCEPT ![l] = rest_events(@)]
    /\ UNCHANGED <<sent, drain_pc, vmvars, loopvars>>

\* try_iter() finds the channel empty and handle_event returns
HandleEventEnd(l) ==
    /\ drain_pc[l] = "iter"
    /\ events[l] = <<>>
    /\ drain_pc' = [drain_pc EXCEPT ![l] = "idle"]
    /\ drained' = [drained EXCEPT ![l] = TRUE]
    /\ UNCHANGED <<events, sent, applied, store, vmvars>>
    /\ UNCHANGED <<pc_app, pc_sys, mtx, run, sys_ticks, transfers, run_sets, arrived>>

\* a system of loop src sends an event through the Sender in its resources
Send(src) ==
    /\ NumSent < MaxEvents
    /\ \E ev \in LoopEvent : send(src, ev)
    /\ UNCHANGED <<applied, store, drain_pc, vmvars, loopvars>>

InitEvents ==
    /\ InitVMVars
    /\ InitLoopVars
    /\ InitEventVars

NextEvents ==
    \E l \in Loops :
        \/ Send(l)
        \/ HandleEventBegin(l)
        \/ HandleEventNext(l)
        \/ HandleEventEnd(l)

SpecEvents == InitEvents /\ [][NextEvents]_vars

----------------------------------------------------------------------------
(* AppLoop::start: the body of the app worker's loop *)

\* let _guard = app.mtx.lock()
AppLock ==
    /\ pc_app = "lock"
    /\ mtx = "none"
    /\ mtx' = "app"
    /\ pc_app' = "start_hooks"
    /\ UNCHANGED <<pc_sys, run, sys_ticks, transfers, run_sets, drained, arrived, vmvars, evvars>>

\* for func in app.on_schedule_start.iter(): the list is empty
AppStartHooks ==
    /\ pc_app = "start_hooks"
    /\ on_schedule_start["app"] = <<>>
    /\ pc_app' = "schedule"
    /\ UNCHANGED <<pc_sys, mtx, run, sys_ticks, transfers, run_sets, drained, arrived, vmvars, evvars>>

\* app.schedule.item.execute: its systems reach the resources of the app
\* loop, which hold the run flag and the Sender of the sys loop's channel
AppSchedule ==
    /\ pc_app = "schedule"
    /\ \/ UNCHANGED <<run, run_sets>>
       \/ /\ run_sets < MaxRunSets
          /\ run' = TRUE
          /\ run_sets' = run_sets + 1
    /\ systems_send("app")
    /\ drained' = [drained EXCEPT !["app"] = FALSE]
    /\ pc_app' = "end_hooks"
    /\ UNCHANGED <<pc_sys, mtx, sys_ticks, transfers, applied, store, drain_pc, arrived, vmvars>>

\* for func in app.on_schedule_end.iter(): the list is empty
AppEndHooks ==
    /\ pc_app = "end_hooks"
    /\ on_schedule_end["app"] = <<>>
    /\ pc_app' = "unlock"
    /\ UNCHANGED <<pc_sys, mtx, run, sys_ticks, transfers, run_sets, drained, arrived, vmvars, evvars>>

\* a loop body whose end keeps _guard alive
AppUnlock_leak ==
    /\ pc_app = "unlock"
    /\ mtx' = mtx
    /\ pc_app' = "lock"
    /\ UNCHANGED <<pc_sys, run, sys_ticks, transfers, run_sets, drained, arrived, vmvars, evvars>>

\* a loop body that breaks out after one iteration, on to app.barrier.wait()
AppUnlock_break ==
    /\ pc_app = "unlock"
    /\ mtx' = "none"
    /\ pc_app' = "barrier"
    /\ arrived' = arrived \cup {"app"}
    /\ UNCHANGED <<pc_sys, run, sys_ticks, transfers, run_sets, drained, vmvars, evvars>>

\* the end of the loop body drops _guard and the loop starts over: the body
\* holds no break and no return
AppUnlock ==
    /\ pc_app = "unlock"
    /\ mtx' = "none"
    /\ pc_app' = "lock"
    /\ UNCHANGED <<pc_sys, run, sys_ticks, transfers, run_sets, drained, arrived, vmvars, evvars>>

AppStep == AppLock \/ AppStartHooks \/ AppSchedule \/ AppEndHooks \/ AppUnlock

----------------------------------------------------------------------------
(* SysLoop::start: the body of the sys worker's loop *)

\* a load whose else branch goes on to the transfer
SysLoad_transfer_in_else ==
    /\ pc_sys = "load"
    /\ pc_sys' = IF run THEN "store" ELSE "lock"
    /\ UNCHANGED <<pc_app, mtx, run, sys_ticks, transfers, run_sets, drained, arrived, vmvars, evvars>>

\* if sys.run.load(Ordering::Relaxed)
SysLoad ==
    /\ pc_sys = "load"
    /\ pc_sys' = IF run THEN "store" ELSE "wait_hooks"
    /\ UNCHANGED <<pc_app, mtx, run, sys_ticks, transfers, run_sets, drained, arrived, vmvars, evvars>>

\* a tick that leaves the flag as it found it
SysStore_keep ==
    /\ pc_sys = "store"
    /\ run' = run
    /\ pc_sys' = "start_hooks"
    /\ UNCHANGED <<pc_app, mtx, sys_ticks, transfers, run_sets, drained, arrived, vmvars, evvars>>

\* sys.run.store(false, Ordering::Relaxed)
SysStore ==
    /\ pc_sys = "store"
    /\ run' = FALSE
    /\ pc_sys' = "start_hooks"
    /\ UNCHANGED <<pc_app, mtx, sys_ticks, transfers, run_sets, drained, arrived, vmvars, evvars>>

\* for func in sys.on_schedule_start.iter(): the list is empty
SysStartHooks ==
    /\ pc_sys = "start_hooks"
    /\ on_schedule_start["sys"] = <<>>
    /\ pc_sys' = "schedule"
    /\ UNCHANGED <<pc_app, mtx, run, sys_ticks, transfers, run_sets, drained, arrived, vmvars, evvars>>

\* sys.schedule.item.execute: its systems reach the resources of the sys
\* loop, which hold the Sender of the app loop's channel
SysSchedule ==
    /\ pc_sys = "schedule"
    /\ systems_send("sys")
    /\ sys_ticks' = sys_ticks + 1
    /\ drained' = [drained EXCEPT !["sys"] = FALSE]
    /\ pc_sys' = "end_hooks"
    /\ UNCHANGED <<pc_app, mtx, run, transfers, run_sets, applied, store, drain_pc, arrived, vmvars>>

\* a tick that takes the guard before its end hooks
SysEndHooks_locked ==
    /\ pc_sys = "end_hooks"
    /\ mtx = "none"
    /\ mtx' = "sys"
    /\ pc_sys' = "end_hooks_held"
    /\ UNCHANGED <<pc_app, run, sys_ticks, transfers, run_sets, drained, arrived, vmvars, evvars>>

\* for func in sys.on_schedule_end.iter(): the list is empty
SysEndHooks ==
    /\ pc_sys = "end_hooks"
    /\ on_schedule_end["sys"] = <<>>
    /\ pc_sys' = "lock"
    /\ UNCHANGED <<pc_app, mtx, run, sys_ticks, transfers, run_sets, drained, arrived, vmvars, evvars>>

\* a lock that does not wait for the guard to be free
SysLock_no_wait ==
    /\ pc_sys = "lock"
    /\ mtx' = "sys"
    /\ pc_sys' = "update"
    /\ UNCHANGED <<pc_app, run, sys_ticks, transfers, run_sets, drained, arrived, vmvars, evvars>>

\* a try_lock that gives the transfer up when the guard is taken
SysLock_try ==
    /\ pc_sys = "lock"
    /\ IF mtx = "none"
       THEN mtx' = "sys" /\ pc_sys' = "update"
       ELSE mtx' = mtx /\ pc_sys' = "load"
    /\ UNCHANGED <<pc_app, run, sys_ticks, transfers, run_sets, drained, arrived, vmvars, evvars>>

\* let _guard = sys.mtx.lock()
SysLock ==
    /\ pc_sys = "lock"
    /\ mtx = "none"
    /\ mtx' = "sys"
    /\ pc_sys' = "update"
    /\ UNCHANGED <<pc_app, run, sys_ticks, transfers, run_sets, drained, arrived, vmvars, evvars>>

\* (sys.update)(app, &sys): the transfer callback, |_, _| {}
SysUpdate ==
    /\ pc_sys = "update"
    /\ transfers' = transfers + 1
    /\ pc_sys' = "unlock"
    /\ UNCHANGED <<pc_app, mtx, run, sys_ticks, run_sets, drained, arrived, vmvars, evvars>>

\* the end of the if block drops _guard
SysUnlock ==
    /\ pc_sys = "unlock"
    /\ mtx' = "none"
    /\ pc_sys' = "load"
    /\ UNCHANGED <<pc_app, run, sys_ticks, transfers, run_sets, drained, arrived, vmvars, evvars>>

\* for func in sys.on_schedule_wait.iter(): the list is empty
SysWaitHooks ==
    /\ pc_sys = "wait_hooks"
    /\ on_schedule_wait = <<>>
    /\ pc_sys' = "load"
    /\ UNCHANGED <<pc_app, mtx, run, sys_ticks, transfers, run_sets, drained, arrived, vmvars, evvars>>

SysStep ==
    \/ SysLoad \/ SysStore \/ SysStartHooks \/ SysSchedule \/ SysEndHooks
    \/ SysLock \/ SysUpdate \/ SysUnlock \/ SysWaitHooks

InitLoops ==
    /\ InitVMVars
    /\ InitLoopVars
    /\ InitEventVars

\* Core::start, after it spawned both workers: self.barrier.wait()
CoreStartWait ==
    /\ "main" \notin arrived
    /\ arrived' = arrived \cup {"main"}
    /\ UNCHANGED <<pc_app, pc_sys, mtx, run, sys_ticks, transfers, run_sets, drained>>
    /\ UNCHANGED <<vmvars, evvars>>

\* Barrier::wait returns once as many threads as the Barrier counts wait
BarrierReleased == Cardinality(arrived) >= BarrierParties

NextLoops == AppStep \/ SysStep \/ CoreStartWait

\* Core::start spawns both workers
SpecLoops == InitLoops /\ [][NextLoops]_vars

\* each worker thread keeps being scheduled; std::sync::Mutex promises no
\* order among the threads waiting for it
FairLoops == SpecLoops /\ WF_vars(AppStep) /\ WF_vars(SysStep)

----------------------------------------------------------------------------
(* The value graph and its callers *)

Decls ==
    {<<>>}
    \cup {<<p>> : p \in FuncNames \X ParentNames}
    \cup {<<p, q>> : p \in FuncNames \X ParentNames, q \in FuncNames \X ParentNames}

Firsts(decl) == [k \in 1..Len(decl) |-> decl[k][1]]
Seconds(decl) == [k \in 1..Len(decl) |-> decl[k][2]]

NumAdded == Len(values) - Len(new.values)

\* the last call was update()
AfterUpdate == op \in {"update", "update_again"}

InitVM ==
    /\ InitVMVars
    /\ InitLoopVars
    /\ InitEventVars

\* a caller registers one more node
AddValue ==
    /\ status = "ok"
    /\ NumAdded < MaxNodes
    /\ \E name \in {NodeNames[NumAdded + 1]}, base \in Bases, decl \in Decls :
        /\ npairs + Len(decl) <= MaxPairs
        /\ LET vm == add_value([values |-> values, paras |-> paras], name, base,
                               Firsts(decl), Seconds(decl))
           IN  /\ values' = vm.values
               /\ paras' = vm.paras
        /\ last_add' = [funcs |-> Firsts(decl), parents |-> Seconds(decl)]
        /\ npairs' = npairs + Len(decl)
    /\ op' = "add_value"
    /\ update_log' = NoLog
    /\ UNCHANGED <<status, npush, commit_st, pushed, loopvars, evvars>>

\* a holder of the handle returned by add_value adds d to the pending change
PushDelta ==
    /\ status = "ok"
    /\ npush < MaxDeltas
    /\ \E i \in Len(new.values)..(Len(values) - 1), d \in Deltas :
        /\ values' = [values EXCEPT ![i + 1].change = F16(@ + d)]
        /\ pushed' = pushed + d
    /\ npush' = npush + 1
    /\ op' = "push"
    /\ update_log' = NoLog
    /\ UNCHANGED <<paras, status, last_add, npairs, commit_st, loopvars, evvars>>

\* the owner of the manager calls update()
Update ==
    /\ status = "ok"
    /\ LET r == update(values, paras)
       IN  /\ values' = r.values
           /\ status' = r.status
           /\ update_log' =
                [pending |-> {j \in 0..(Len(values) - 1) : values[j + 1].change # 0},
                 dirty |-> r.dirty, writes |-> r.writes]
    /\ op' = IF AfterUpdate THEN "update_again" ELSE "update"
    /\ UNCHANGED <<paras, last_add, npairs, npush, commit_st, pushed, loopvars, evvars>>

NextVM == AddValue \/ PushDelta \/ Update

SpecVM == InitVM /\ [][NextVM]_vars

\* a caller registers one more node without parents, its base small or at
\* the magnitude where consecutive f16 values lie 2 apart
AddLeaf ==
    /\ status = "ok"
    /\ NumAdded < MaxNodes
    /\ \E name \in {NodeNames[NumAdded + 1]}, base \in WideBases :
        LET vm == add_value([values |-> values, paras |-> paras], name, base, <<>>, <<>>)
        IN  /\ values' = vm.values
            /\ paras' = vm.paras
    /\ last_add' = [funcs |-> <<>>, parents |-> <<>>]
    /\ op' = "add_value"
    /\ update_log' = NoLog
    /\ UNCHANGED <<status, npairs, npush, commit_st, pushed, loopvars, evvars>>

NextVMLeaves == AddLeaf \/ PushDelta \/ Update

\* the value manager holding leaves only
SpecVMLeaves == InitVM /\ [][NextVMLeaves]_vars

----------------------------------------------------------------------------
(* update() statement by statement, next to a thread that holds a handle *)

\* the manager after new(), add_value("A", 1, [], []) and
\* add_value("B", 1, ["ADD"], ["A"])
TwoNodes ==
    add_value(add_value(new, "A", 1, <<>>, <<>>), "B", 1, <<"ADD">>, <<"A">>)

InitCommit ==
    /\ values = TwoNodes.values
    /\ paras = TwoNodes.paras
    /\ status = "ok"
    /\ op = "add_value"
    /\ last_add = [funcs |-> <<"ADD">>, parents |-> <<"A">>]
    /\ npairs = 1
    /\ npush = 0
    /\ update_log = NoLog
    /\ commit_st = NoCommit
    /\ pushed = 0
    /\ InitLoopVars
    /\ InitEventVars

\* update() is called: let mut update = Vec::new()
UpdateBegin ==
    /\ status = "ok"
    /\ commit_st.pc = "idle"
    /\ commit_st' = [pc |-> "test", i |-> 0, update |-> <<>>]
    /\ update_log' = NoLog
    /\ UNCHANGED <<values, paras, status, op, last_add, npairs, npush, pushed>>
    /\ UNCHANGED <<loopvars, evvars>>

\* if value.change.to_f32() != 0. { update.push(i); ...
CommitTest ==
    /\ commit_st.pc = "test"
    /\ commit_st.i < Len(values)
    /\ IF values[commit_st.i + 1].change # 0
       THEN /\ commit_st' = [commit_st EXCEPT !.pc = "add", !.update = Append(@, commit_st.i)]
            /\ update_log' = [update_log EXCEPT !.pending = @ \cup {commit_st.i}]
       ELSE /\ commit_st' = [commit_st EXCEPT !.i = @ + 1]
            /\ UNCHANGED update_log
    /\ UNCHANGED <<values, paras, status, op, last_add, npairs, npush, pushed>>
    /\ UNCHANGED <<loopvars, evvars>>

\* value.base = f16::from_f32(value.base.to_f32() + value.change.to_f32())
CommitAdd ==
    /\ commit_st.pc = "add"
    /\ values' = [values EXCEPT ![commit_st.i + 1].base =
                      F16(@ + values[commit_st.i + 1].change)]
    /\ commit_st' = [commit_st EXCEPT !.pc = "zero"]
    /\ UNCHANGED <<paras, status, op, last_add, npairs, npush, update_log, pushed>>
    /\ UNCHANGED <<loopvars, evvars>>

\* value.change = f16::from_f32(0.)
CommitZero ==
    /\ commit_st.pc = "zero"
    /\ values' = [values EXCEPT ![commit_st.i + 1].change = 0]
    /\ commit_st' = [commit_st EXCEPT !.pc = "test", !.i = @ + 1]
    /\ UNCHANGED <<paras, status, op, last_add, npairs, npush, update_log, pushed>>
    /\ UNCHANGED <<loopvars, evvars>>

\* the commit loop is through: the expansion and recompute phases, and the
\* return of update(); they read and write no change
UpdateRest ==
    /\ commit_st.pc = "test"
    /\ commit_st.i >= Len(values)
    /\ LET u == expand(values, paras, commit_st.update, commit_st.update)
           r == recompute(values, paras, u)
       IN  /\ values' = r.values
           /\ status' = r.status
           /\ update_log' = [update_log EXCEPT !.dirty = u, !.writes = r.writes]
    /\ commit_st' = NoCommit
    /\ op' = IF AfterUpdate THEN "update_again" ELSE "update"
    /\ UNCHANGED <<paras, last_add, npairs, npush, pushed>>
    /\ UNCHANGED <<loopvars, evvars>>

NextCommit ==
    \/ PushDelta
    \/ UpdateBegin \/ CommitTest \/ CommitAdd \/ CommitZero \/ UpdateRest

\* update() on one thread, the holder of the handles on another
SpecCommit == InitCommit /\ [][NextCommit]_vars

----------------------------------------------------------------------------
(* Properties of the value graph, checked under SpecVM *)

Nodes == 0..(Len(values) - 1)
Last == Len(values) - 1

\* the fold of node i over its stored (func, parent) list, parents at their
\* values in vals
node_fold(vals, prs, i) == fold(vals, paras_of(vals, prs, i), 1, vals[i + 1].base)

\* the nodes that name a node of S as a parent
children_of(vals, prs, S) ==
    {ii \in 0..(Len(vals) - 1) :
        \E k \in 1..Len(paras_of(vals, prs, ii)) : paras_of(vals, prs, ii)[k][2] \in S}

\* S and every transitive descendant of a node of S
RECURSIVE Descendants(_, _, _)
Descendants(vals, prs, S) ==
    LET T == S \cup children_of(vals, prs, S)
    IN  IF T = S THEN S ELSE Descendants(vals, prs, T)

\* L is the one node with a pending change, and it has no parents
OnlyLeafDelta(L) ==
    /\ values[L + 1].change # 0
    /\ values[L + 1].paras = None
    /\ \A j \in Nodes : j # L => values[j + 1].change = 0

\* C1: after update() returns, every node with (operator, parent) pairs has
\* value = fold of its base through its operators against the parents'
\* values, whether or not the node was recomputed by this update().
C1_EveryValueIsItsFold ==
    (AfterUpdate /\ status = "ok") =>
        \A i \in Nodes :
            (values[i + 1].paras # None /\ node_fold(values, paras, i).status = "ok")
                => values[i + 1].value = node_fold(values, paras, i).value

\* C3: right after add_value returns, the new node's value is its base folded
\* through the declared operators against the parents' current values (all
\* declared parents registered, all operator names known).
C3_AddValueIsEager ==
    (/\ op = "add_value"
     /\ Len(paras_of(values, paras, Last)) = Len(last_add.funcs)
     /\ node_fold(values, paras, Last).status = "ok")
        => values[Last + 1].value = node_fold(values, paras, Last).value

\* the nodes with a pending change
Pending == {j \in Nodes : values[j + 1].change # 0}

\* C4: update() leaves the base, value and pending delta of every node that
\* neither holds a pending delta nor descends from a node that does as they
\* were; with the one delta in a leaf L, those are all nodes that are neither
\* L nor a descendant of L.
C4_NonDescendantsUnchanged ==
    [][op' \in {"update", "update_again"}
          => /\ \A i \in Nodes \ Descendants(values, paras, Pending) :
                    values'[i + 1] = values[i + 1]
             /\ \A L \in Nodes :
                    OnlyLeafDelta(L)
                        => \A i \in Nodes \ Descendants(values, paras, {L}) :
                              values'[i + 1] = values[i + 1]]_vars

\* C4 witness: update() has committed the one delta of a leaf that has a
\* child, while another added node with parents of its own is no descendant.
C4_Witness ==
    /\ op = "update"
    /\ status = "ok"
    /\ npush = 1
    /\ \E L \in Nodes :
        /\ values[L + 1].paras = None
        /\ values[L + 1].base = 4
        /\ values[L + 1].change = 0
        /\ Descendants(values, paras, {L}) # {L}
        /\ \E n \in Nodes \ Descendants(values, paras, {L}) :
              Len(paras_of(values, paras, n)) > 0

\* C5: an update() that directly follows an update() that returned changes
\* no node: every base, value and pending delta stays as the first call left it.
C5_SecondUpdateChangesNothing ==
    [][(AfterUpdate /\ status = "ok" /\ op' = "update_again")
          => (values' = values /\ status' = "ok")]_vars

\* C5 witness: a second update() in a row has returned on a graph in which
\* the first one committed a delta and recomputed a child.
C5_Witness ==
    /\ op = "update_again"
    /\ status = "ok"
    /\ \E L \in Nodes :
        /\ values[L + 1].base = 4
        /\ \E c \in Descendants(values, paras, {L}) \ {L} :
              values[c + 1].value # values[c + 1].base

\* the parents of node i
parents_of(vals, prs, i) ==
    {paras_of(vals, prs, i)[k][2] : k \in 1..Len(paras_of(vals, prs, i))}

\* the position of x in the sequence s without repeats, 0 if it is not there
PosIn(s, x) == IF Contains(s, x) THEN CHOOSE k \in 1..Len(s) : s[k] = x ELSE 0

NoRepeats(s) == \A k, m \in 1..Len(s) : s[k] = s[m] => k = m

\* C13: within one update() every value is assigned at most once, and a
\* node's value is assigned only after the value of each of its parents that
\* is dirty in this call (holds a change or descends from a node that does).
C13_WrittenOnceParentsFirst ==
    AfterUpdate =>
        /\ NoRepeats(update_log.writes)
        /\ \A p \in 1..Len(update_log.writes) :
              \A q \in parents_of(values, paras, update_log.writes[p])
                          \cap Descendants(values, paras, update_log.pending) :
                  /\ PosIn(update_log.writes, q) > 0
                  /\ PosIn(update_log.writes, q) < p

\* C13 witness: one update() assigned three values along a chain, a node
\* after its parent and that one after its own parent, which held the change.
C13_Witness ==
    /\ op = "update"
    /\ status = "ok"
    /\ Len(update_log.writes) = 3
    /\ update_log.pending = {update_log.writes[1]}
    /\ update_log.writes[1] \in parents_of(values, paras, update_log.writes[2])
    /\ update_log.writes[2] \in parents_of(values, paras, update_log.writes[3])

\* C16: the commit phase of update() raises the base of every node with a
\* non-zero pending delta by exactly that delta and zeroes the delta, leaves
\* the base of every other node alone, and update() ends with every delta zero.
C16_CommitAddsDeltaExactly ==
    [][op' \in {"update", "update_again"}
          => \A i \in Nodes :
                /\ values'[i + 1].change = 0
                /\ values'[i + 1].base = values[i + 1].base + values[i + 1].change]_vars

\* C16 as the code has it: the base becomes the f16 nearest to base + delta
\* (ties to even), which is base + delta whenever that sum is an f16; the
\* delta is zeroed, and a node without pending delta keeps its base.
C16_CommitAddsDeltaRounded ==
    [][op' \in {"update", "update_again"}
          => \A i \in Nodes :
                /\ values'[i + 1].change = 0
                /\ values'[i + 1].base = F16(values[i + 1].base + values[i + 1].change)
                /\ Abs(values[i + 1].base + values[i + 1].change) <= F16Exact
                      => values'[i + 1].base = values[i + 1].base + values[i + 1].change
                /\ values[i + 1].change = 0
                      => values'[i + 1].base = values[i + 1].base]_vars

\* C16 witness: one update() committed a delta of 3 into a base of 1 exactly,
\* rounded 2048 + 3 to 2052, and left a third node's base of 2048 alone.
C16_Witness ==
    /\ op = "update"
    /\ Len(values) = 8
    /\ update_log.pending = {5, 6}
    /\ values[6].base = 4
    /\ values[7].base = 2052
    /\ values[8].base = 2048
    /\ \A i \in Nodes : values[i + 1].change = 0

SetOf(s) == {s[k] : k \in 1..Len(s)}

\* C17: when the stack walk of update() ends, the dirty list holds the nodes
\* that held a non-zero delta and all their transitive descendants along
\* parent-to-child edges, each exactly once, and no other node.
C17_DirtyIsDescendantClosure ==
    AfterUpdate =>
        /\ NoRepeats(update_log.dirty)
        /\ SetOf(update_log.dirty) = Descendants(values, paras, update_log.pending)

\* C17 witness: two nodes held a delta, one of them a child of the other and
\* the parent of a third node; the dirty list holds the three, once each.
C17_Witness ==
    /\ op = "update"
    /\ Cardinality(update_log.pending) = 2
    /\ Len(update_log.dirty) = 3
    /\ \E a, b \in update_log.pending, c \in SetOf(update_log.dirty) \ update_log.pending :
          /\ a \in parents_of(values, paras, b)
          /\ b \in parents_of(values, paras, c)
          /\ a \notin parents_of(values, paras, c)

\* C18: after any sequence of add_value calls every parent index stored for
\* a node is smaller than the node's own index and is the index of a node,
\* also when names repeat and when a node names itself as a parent.
C18_ParentsPrecedeChildren ==
    \A i \in Nodes :
        /\ values[i + 1].paras # None
              => values[i + 1].paras \in 0..(Len(paras) - 1)
        /\ \A q \in parents_of(values, paras, i) : q \in 0..(i - 1)

\* C18 witness: the second node named A was added with its own name and B as
\* parents; its stored parents are the first A and B, both older than it.
C18_Witness ==
    /\ op = "add_value"
    /\ Len(values) = 8
    /\ values[8].name = values[6].name
    /\ last_add.parents = <<values[8].name, "B">>
    /\ parents_of(values, paras, 7) = {5, 6}

\* the dirty list each pass of the recompute loop starts with, the first
\* pass first
RECURSIVE passes(_, _, _)
passes(vals, prs, list) ==
    IF list = <<>> THEN <<>>
    ELSE LET s == select(vals, prs, list, Len(list), <<>>)
         IN  IF s.is = <<>> THEN <<list>>
             ELSE <<list>> \o passes(vals, prs, s.update)

\* C19: update() ends on every graph built through new and add_value: each
\* pass of the recompute loop takes at least one node out of the dirty list,
\* so the loop is never left with a list it cannot shrink.
C19_UpdateTerminates ==
    /\ status # "hang"
    /\ AfterUpdate =>
          LET ps == passes(values, paras, update_log.dirty)
          IN  \A k \in 1..Len(ps) :
                  LET s == select(values, paras, ps[k], Len(ps[k]), <<>>)
                  IN  /\ s.is # <<>>
                      /\ Len(s.update) < Len(ps[k])
                      /\ Len(s.update) + Len(s.is) = Len(ps[k])

\* C19 witness: an update() over a chain of three dirty nodes has returned
\* after three passes, each of which took one node out of the list.
C19_Witness ==
    /\ op = "update"
    /\ status = "ok"
    /\ Len(passes(values, paras, update_log.dirty)) = 3
    /\ Len(update_log.dirty) = 3
    /\ Len(update_log.writes) = 3

\* the oldest node below index n that carries the name
OldestNamed(vals, name, n) ==
    CHOOSE j \in 0..(n - 1) :
        /\ vals[j + 1].name = name
        /\ \A m \in 0..(j - 1) : vals[m + 1].name # name

\* the declared (operator, parent) pairs whose parent name is registered
\* below index n, in declaration order, each operator with the parent
\* declared at its position
DeclaredPairs(vals, funcs, parents, n) ==
    LET Known(k) == \E j \in 0..(n - 1) : vals[j + 1].name = parents[k]
        ks == SelectSeq([k \in 1..Len(funcs) |-> k], Known)
    IN  [m \in 1..Len(ks) |->
            <<get_func(funcs[ks[m]]), OldestNamed(vals, parents[ks[m]], n)>>]

\* the first n operators of ps applied to base one after the other, the
\* first one first, each against the value of its own parent
RECURSIVE LeftFold(_, _, _, _)
LeftFold(vals, ps, base, n) ==
    IF n = 0 THEN base
    ELSE FUNCS(ps[n][1], LeftFold(vals, ps, base, n - 1), vals[ps[n][2] + 1].value)

\* C20: the list add_value stores keeps each declared operator with the
\* parent declared at the same position, in declaration order, and update()
\* recomputes a node by applying that list left to right from the base.
C20_FoldInDeclarationOrder ==
    /\ op = "add_value" =>
          paras_of(values, paras, Last)
              = DeclaredPairs(values, last_add.funcs, last_add.parents, Last)
    /\ (AfterUpdate /\ status = "ok") =>
          \A i \in SetOf(update_log.writes) :
              values[i + 1].value
                  = LeftFold(values, paras_of(values, paras, i), values[i + 1].base,
                             Len(paras_of(values, paras, i)))

\* C20 witness: update() recomputed a node declared with SET on one parent
\* and then ADD on another: its value is the sum of the two parents' values,
\* where the other order of application would leave the second parent's value.
C20_Witness ==
    /\ op = "update"
    /\ status = "ok"
    /\ \E i \in SetOf(update_log.writes) :
          LET ps == paras_of(values, paras, i)
          IN  /\ Len(ps) = 2
              /\ ps[1][1] = get_func("SET")
              /\ ps[2][1] = get_func("ADD")
              /\ ps[1][2] # ps[2][2]
              /\ values[i + 1].value
                    = values[ps[1][2] + 1].value + values[ps[2][2] + 1].value
              /\ values[i + 1].value # values[ps[2][2] + 1].value

\* C12: add_value registers no node whose stored parent list is shorter than
\* its declared operator list: a call that names a parent which is not
\* registered fails instead of returning a node.
C12_MissingParentFails ==
    op = "add_value" =>
        /\ Len(paras_of(values, paras, Last)) = Len(last_add.funcs)
        /\ \A k \in 1..Len(last_add.parents) :
              \E j \in 0..(Last - 1) : values[j + 1].name = last_add.parents[k]

\* C21: every operator code stored for a node is an index into the 10 entries
\* of FUNCS, whatever operator names add_value was given, and update() never
\* indexes FUNCS out of bounds.
C21_StoredFuncsIndexFUNCS ==
    /\ \A i \in Nodes :
          \A k \in 1..Len(paras_of(values, paras, i)) :
              paras_of(values, paras, i)[k][1] \in 0..(NumFuncs - 1)
    /\ status # "panic"

\* the sum of the bases of the nodes of vals from index n on
RECURSIVE SumBase(_, _)
SumBase(vals, n) ==
    IF n >= Len(vals) THEN 0 ELSE vals[n + 1].base + SumBase(vals, n + 1)

\* C22: no delta written next to a running update() is lost or applied twice:
\* once an update() has returned with no delta pending, the bases have
\* changed in total by the sum of all deltas written.
C22_NoDeltaLost ==
    (/\ commit_st.pc = "idle"
     /\ AfterUpdate
     /\ \A i \in Nodes : values[i + 1].change = 0)
        => SumBase(values, 0) = SumBase(TwoNodes.values, 0) + pushed

----------------------------------------------------------------------------
(* Properties of the two loops, checked under SpecLoops and FairLoops *)

\* the app worker holds its guard: it is inside an iteration of its loop
AppInTick == pc_app \in {"start_hooks", "schedule", "end_hooks", "unlock"}
\* the sys worker holds its guard: it is in, or just out of, the transfer
SysInTransfer == pc_sys \in {"update", "unlock"}

\* C2: the transfer callback never runs while the app loop is inside a tick:
\* at most one worker is at the app loop's store, and it holds the mutex.
C2_TransferExcludesAppTick ==
    /\ ~(AppInTick /\ SysInTransfer)
    /\ AppInTick => mtx = "app"
    /\ SysInTransfer => mtx = "sys"

\* C2 witness: the sys worker is about to run the transfer while the app
\* worker waits for the mutex.
C2_Witness ==
    /\ pc_sys = "update"
    /\ mtx = "sys"
    /\ pc_app = "lock"
    /\ sys_ticks = 1

\* C6: the sys loop starts no tick between the end of its schedule and its
\* transfer: while a completed tick has had no transfer the worker is on its
\* way to the transfer, and a schedule starts only with every tick transferred.
C6_NoTickBeforeTransfer ==
    /\ sys_ticks # transfers => pc_sys \in {"end_hooks", "lock", "update"}
    /\ pc_sys \in {"store", "start_hooks", "schedule"} => transfers = sys_ticks

\* C6 witness: a second sys tick is about to execute its schedule.
C6_Witness ==
    /\ pc_sys = "schedule"
    /\ sys_ticks = 1
    /\ transfers = 1

\* C7: the transfers never outnumber the completed sys schedule executions
\* and never fall behind them by more than one.
C7_OneTransferPerTick ==
    /\ transfers <= sys_ticks
    /\ sys_ticks <= transfers + 1

\* C7 witness: two sys ticks have completed, each with its transfer.
C7_Witness ==
    /\ sys_ticks = 2
    /\ transfers = 2
    /\ pc_sys = "unlock"

\* C8: every completed sys tick is eventually followed by its transfer and
\* by the sys loop being back at the top of its loop.
C8_TransferEventuallyFires ==
    (sys_ticks > transfers) ~> (sys_ticks = transfers /\ pc_sys = "load")

\* C10: every tick that ran the schedule has drained the queue by the time
\* the tick ends (app: the guard is about to drop; sys: the hooks are done).
C10_EveryTickDrains ==
    /\ pc_app = "unlock" => drained["app"]
    /\ pc_sys = "lock" => drained["sys"]

\* C15: once both loops run, neither leaves its loop body: no worker reaches
\* barrier.wait(), so the Barrier never counts its three threads and the
\* wait() of Core::start never returns.
C15_LoopsNeverReachBarrier ==
    /\ pc_app \in {"lock", "start_hooks", "schedule", "end_hooks", "unlock"}
    /\ pc_sys \in {"load", "store", "start_hooks", "schedule", "end_hooks",
                   "lock", "update", "unlock", "wait_hooks"}
    /\ arrived \subseteq {"main"}
    /\ ~BarrierReleased

\* C15 witness: Core::start waits at the barrier while the app worker starts
\* one more iteration and the sys worker ends its second tick and transfer.
C15_Witness ==
    /\ "main" \in arrived
    /\ pc_app = "start_hooks"
    /\ run_sets = 2
    /\ sys_ticks = 2
    /\ transfers = 2
    /\ pc_sys = "load"

\* the sys ticks begun so far: those completed and the one under way
SysTicksBegun ==
    sys_ticks + (IF pc_sys \in {"store", "start_hooks", "schedule"} THEN 1 ELSE 0)

\* C23: the sys loop runs its schedule only after it saw run true, and it
\* clears run before the schedule: the sys ticks never outnumber the stores
\* of true into run, none happens while run was never set, and the step that
\* leads into a tick stores false.
C23_TicksNeverExceedRunSets ==
    /\ [](SysTicksBegun <= run_sets)
    /\ [](run_sets = 0 => (~run /\ sys_ticks = 0 /\ pc_sys \in {"load", "wait_hooks"}))
    /\ [][(pc_sys # "start_hooks" /\ pc_sys' = "start_hooks")
              => (pc_sys = "store" /\ run' = FALSE)]_vars

\* C23 witness: run was set twice, the sys loop ticked twice and then saw
\* the flag false.
C23_Witness ==
    /\ run_sets = 2
    /\ sys_ticks = 2
    /\ ~run
    /\ pc_sys = "wait_hooks"

\* C24: no store of true into run is lost to the separate load and clear:
\* whenever run holds true, the sys loop goes on to execute a schedule that
\* starts after that moment.
C24_RunRequestServed ==
    \A k \in 0..MaxRunSets : (run /\ sys_ticks = k) ~> (sys_ticks > k)

\* C25: the two loops never deadlock: some worker can always take a step; a
\* worker can be blocked only at its lock of the mutex; no worker locks the
\* mutex while it holds the guard itself; and the guard is gone at the end of
\* every app iteration and after every transfer callback.
C25_NoDeadlock ==
    /\ ENABLED AppStep \/ ENABLED SysStep
    /\ pc_app # "lock" => ENABLED AppStep
    /\ pc_sys # "lock" => ENABLED SysStep
    /\ pc_app = "lock" => mtx # "app"
    /\ pc_sys = "lock" => mtx # "sys"
    /\ pc_sys \in {"load", "store", "start_hooks", "schedule", "end_hooks", "wait_hooks"}
          => mtx # "sys"

\* C25 witness: the sys worker, its second tick done, is blocked at its lock
\* by the guard of the app worker, which can go on.
C25_Witness ==
    /\ pc_sys = "lock"
    /\ mtx = "app"
    /\ sys_ticks = 2
    /\ ~ENABLED SysStep
    /\ ENABLED AppStep

\* the sys worker is inside a tick: start hooks, schedule or end hooks
SysInTick == pc_sys \in {"start_hooks", "schedule", "end_hooks"}

\* C26: the sys loop holds the mutex only while its transfer callback runs,
\* never in its hooks or schedule, so the app loop is never kept from a step
\* while a sys tick is under way or the sys loop waits, and whenever the sys
\* guard blocks it the sys loop is on its way to dropping that guard.
C26_SysHoldsMutexOnlyInTransfer ==
    /\ mtx = "sys" <=> SysInTransfer
    /\ (SysInTick \/ pc_sys \in {"load", "store", "wait_hooks"})
          => (mtx # "sys" /\ (pc_app = "lock" => mtx = "none" /\ ENABLED AppLock))
    /\ (pc_app = "lock" /\ ~ENABLED AppLock)
          => (mtx = "sys" /\ SysInTransfer /\ ENABLED SysStep)

\* C26 witness: while a sys tick is under way (run was cleared for it) the
\* app worker has run its schedule, stored true into run again, and ended
\* its iteration.
C26_Witness ==
    /\ pc_sys = "schedule"
    /\ sys_ticks = 0
    /\ run
    /\ run_sets = 2
    /\ mtx = "none"
    /\ pc_app = "lock"

\* C11: every iteration in which the sys loop saw run false and skipped its
\* schedule applies what queues in its channel: the step that ends such an
\* iteration with events queued has applied at least one of them.
C11_PausedSysLoopDrains ==
    [][(pc_sys = "wait_hooks" /\ pc_sys' = "load" /\ events["sys"] # <<>>)
          => (/\ Len(applied'["sys"]) > Len(applied["sys"])
              /\ Len(events'["sys"]) < Len(events["sys"]))]_vars

\* C27: every event sent into a channel is applied exactly once, by the loop
\* that owns the channel: as many events as were sent to a loop are in the
\* end applied by it, and what it has applied is always the oldest part of
\* what was sent to it.
C27_EveryEventAppliedOnce ==
    \A l \in Loops :
        \A n \in 1..MaxEvents :
            (Len(sent[l]) >= n)
                ~> (Len(applied[l]) >= n /\ SubSeq(applied[l], 1, n) = SubSeq(sent[l], 1, n))

----------------------------------------------------------------------------
(* Properties of handle_event, checked under SpecEvents *)

IsPrefix(s, t) == Len(s) <= Len(t) /\ SubSeq(t, 1, Len(s)) = s

RECURSIVE ApplyAll(_, _)
ApplyAll(st, evs) ==
    IF evs = <<>> THEN st ELSE ApplyAll(apply_event(st, Head(evs)), Tail(evs))

InitStore == [world |-> [e \in Entities |-> "init"], resources |-> "init"]

\* C9: the events of a channel are applied in the order they were sent: what
\* has been applied is the oldest part of what was sent, in that order, the
\* rest still queues in that order, and the store is the result of applying
\* them one after the other; a send is possible whatever the receiver does.
C9_AppliedInSendOrder ==
    \A l \in Loops :
        /\ IsPrefix(applied[l], sent[l])
        /\ applied[l] \o events[l] = sent[l]
        /\ store[l] = ApplyAll(InitStore, SubSeq(sent[l], 1, Len(applied[l])))
        /\ NumSent < MaxEvents => ENABLED Send(producer(l))

\* C9 witness: one drain has applied two different ChangeComponent events of
\* one entity, and the store holds the item of the second.
C9_Witness ==
    \E l \in Loops :
        /\ Len(applied[l]) = 2
        /\ applied[l][1].kind = "ChangeComponent"
        /\ applied[l][2].kind = "ChangeComponent"
        /\ applied[l][1].item # applied[l][2].item
        /\ store[l].world[applied[l][2].entity] = applied[l][2].item
        /\ ~drained[l]

====
